---- MODULE Spec2Model ----
(***************************************************************************)
(* The two notebooks of the repository as one state machine.  A kernel     *)
(* runs either the data-augmentation notebook ("asl") or the assessment    *)
(* notebook ("fruit"); its code cells are executed in document order, one  *)
(* action per cell, and the long library calls (fit, evaluate, save,       *)
(* run_assessment) are split in a begin step, their loop steps and a       *)
(* return step.                                                            *)
(***************************************************************************)
EXTENDS Integers, Sequences, FiniteSets, TLC

VARIABLES nb, pc, active,
          base_model, model, datagen, train_it, test_it,
          fitArgs, epoch, step, images, epochLog, fitsDone,
          baseUpdates, headUpdates,
          saved, valInput, lastEval, verdict,
          names, fitSaw, error, raised

kernel == <<nb, pc, active>>
objs   == <<base_model, model, datagen, train_it, test_it>>
prog   == <<fitArgs, epoch, step, images, epochLog, fitsDone>>
wts    == <<baseUpdates, headUpdates>>
outs   == <<saved, valInput, lastEval, verdict>>
sess   == <<names, fitSaw, error, raised>>
vars   == <<kernel, objs, prog, wts, outs, sess>>

(* ------------------------------ bounds -------------------------------- *)
\* cap of the step counter of one epoch (above every epoch length used)
StepCap == 900
\* how many test images may get no class probability above one half
MaxUnsure == 1

(* --------------------------- program constants ------------------------ *)
ASL_TRAIN_ROWS == 27455
FRUIT_TRAIN_IMAGES == 1182
FRUIT_TEST_IMAGES == 329
FRUIT_TRAIN_CLASSES == 6
FRUIT_TEST_CLASSES == 6
DEFAULT_BATCH_SIZE == 32
ASL_BATCH_SIZE == 32
EPOCHS == 20
num_classes == 25
PASS_PERCENT == 92

VGG_INPUT_SHAPE == <<224, 224, 3>>
KERAS_INPUT_SHAPE == <<224, 224, 3>>
\* target_size when the argument is left out
DefaultTargetSize == <<256, 256>>
TARGET_SIZE == <<224, 224>>
COLOR_MODE == "rgb"
CLASS_MODE == "categorical"
ASL_INPUT_SHAPE == <<28, 28, 1>>

\* the output width of the other notebook's model
DenseUnitsOther == num_classes
DENSE_UNITS == 6

INITIAL_LOSS == "categorical_crossentropy"
INITIAL_METRIC == "accuracy"
FINETUNE_LOSS == "binary_crossentropy"
FINETUNE_METRIC == "binary_accuracy"

\* a base model left trainable
FreezeValueOther == TRUE
FREEZE_VALUE == FALSE
UNFREEZE_VALUE == TRUE

(* ------------------------------ helpers ------------------------------- *)
Min(a, b) == IF a <= b THEN a ELSE b

\* channels of a colour mode, as flow_from_directory derives image_shape
ColorChannels(mode) ==
    CASE mode = "rgb" -> 3
      [] mode = "rgba" -> 4
      [] OTHER -> 1

ImageShape(size, mode) == size \o <<ColorChannels(mode)>>

NoShape == <<>>

NoBase == [loaded |-> FALSE, input_shape |-> NoShape, trainable |-> TRUE]

NoModel == [built |-> FALSE, input_shape |-> NoShape, units |-> 0,
            hasBase |-> FALSE, compiled |-> FALSE, loss |-> "none",
            metric |-> "none", trainBase |-> FALSE]

NoDatagen == [made |-> FALSE, fitted |-> FALSE, samplewise_center |-> FALSE,
              rotation_range |-> 0, zoom_tenths |-> 0,
              width_shift_tenths |-> 0, height_shift_tenths |-> 0,
              horizontal_flip |-> FALSE, vertical_flip |-> FALSE]

NoIter == [made |-> FALSE, samples |-> 0, batch_size |-> 0,
           image_shape |-> NoShape, classes |-> 0, class_mode |-> "none",
           augments |-> FALSE, idx |-> 0]

NoFitArgs == [num |-> 0, den |-> 1, epochs |-> 0, valGen |-> FALSE]

NoLog == [steps |-> 0, target |-> 0, images |-> 0]

NoEval == [n |-> 0, correct |-> 0, unsure |-> 0, unsureWrong |-> 0,
           num |-> 0, den |-> 0]

\* the generator perturbs images when any random transform is switched on
Augments(g) ==
    \/ g.rotation_range > 0
    \/ g.zoom_tenths > 0
    \/ g.width_shift_tenths > 0
    \/ g.height_shift_tenths > 0
    \/ g.horizontal_flip
    \/ g.vertical_flip

\* datagen.flow / datagen.flow_from_directory: an iterator over `samples`
\* images that inherits the transforms of the generator that made it
MakeIter(g, samples, batch, shape, classes) ==
    [made |-> TRUE, samples |-> samples, batch_size |-> batch,
     image_shape |-> shape, classes |-> classes, class_mode |-> CLASS_MODE,
     augments |-> Augments(g), idx |-> 0]

\* batches in one pass over the data: ceil(samples / batch_size)
PassLen(it) == (it.samples + it.batch_size - 1) \div it.batch_size

\* a generator whose batches are all full
BatchLenFull(it) == it.batch_size
\* images in the batch at position idx: the last batch of a pass is short
BatchLen(it) == Min(it.batch_size, it.samples - it.idx * it.batch_size)

\* the iterator never runs dry: after the last batch it starts a new pass
Advance(it) == [it EXCEPT !.idx = (it.idx + 1) % PassLen(it)]

\* form of the images an iterator hands out
DrawInput(it) == IF it.augments THEN {"clean", "perturbed"} ELSE {"clean"}

\* a fit loop that is given no steps_per_epoch for an endless generator
EpochOverNoSteps(s, num, den) == FALSE
\* the fit loop leaves an epoch once step >= steps_per_epoch = num / den
EpochOver(s, num, den) == s * den >= num

\* the progress bar prints int(steps_per_epoch) as its target
LoggedTarget(num, den) == num \div den

\* a kernel that would start a cell while a call is still running
KernelIdleOther == TRUE
\* a cell starts only when the previous call has returned
KernelIdle == active = {}

(* --------------------------- evaluation ------------------------------- *)
\* numerator and denominator of the compiled metric over n one-hot samples
\* of width k: `correct` have the right arg-max, `unsure` have no class
\* probability above 0.5, `unsureWrong` of those have the wrong arg-max
MetricNum(metric, k, n, correct, unsure, unsureWrong) ==
    IF metric = "binary_accuracy"
    THEN k * (correct - (unsure - unsureWrong))
         + (k - 2) * ((n - correct) - unsureWrong)
         + (k - 1) * unsure
    ELSE correct

MetricDen(metric, k, n) == IF metric = "binary_accuracy" THEN k * n ELSE n

\* what model.evaluate(it, steps = it.samples / it.batch_size) can return
EvalOutcomes(m, it) ==
    { [n |-> it.samples, correct |-> c, unsure |-> u, unsureWrong |-> w,
       num |-> MetricNum(m.metric, m.units, it.samples, c, u, w),
       den |-> MetricDen(m.metric, m.units, it.samples)] :
         <<c, u, w>> \in { t \in (0..it.samples) \X (0..MaxUnsure) \X (0..MaxUnsure) :
                             /\ t[3] <= t[2]
                             /\ t[3] <= it.samples - t[1]
                             /\ t[2] - t[3] <= t[1] } }

\* run_assessment: pass when the evaluation output reaches the threshold
Grade(e) == IF e.num * 100 >= PASS_PERCENT * e.den THEN "pass" ELSE "fail"

(* --------------------------- names and errors ------------------------- *)
Names == {"keras", "pd", "train_df", "test_df", "x_train", "y_train",
          "x_test", "y_test", "Sequential", "Dense", "Conv2D", "MaxPool2D",
          "Flatten", "Dropout", "BatchNormalization", "num_classes",
          "model", "ImageDataGenerator", "datagen", "IPython", "app",
          "base_model", "inputs", "x", "outputs", "train_it", "test_it",
          "run_assessment"}

\* names[v] is the cell whose execution bound v, 0 while v is unbound
Unbound == [v \in Names |-> 0]

Bind(S, c) == [v \in Names |-> IF v \in S THEN c ELSE names[v]]

\* the names the cells of the data-augmentation notebook assign or import
WritesASL(c) ==
    CASE c = 1 -> {"keras", "pd", "train_df", "test_df", "x_train",
                   "y_train", "x_test", "y_test"}
      [] c = 2 -> {"Sequential", "Dense", "Conv2D", "MaxPool2D",
                   "Flatten", "Dropout", "BatchNormalization",
                   "num_classes", "model"}
      [] c = 3 -> {"ImageDataGenerator", "datagen"}
      [] c = 8 -> {"IPython", "app"}
      [] OTHER -> {}

\* the names the cells of the assessment notebook assign or import
WritesFruit(c) ==
    CASE c = 1 -> {"keras", "base_model"}
      [] c = 3 -> {"inputs", "x", "outputs", "model"}
      [] c = 6 -> {"ImageDataGenerator", "datagen"}
      [] c = 7 -> {"train_it", "test_it"}
      [] c = 12 -> {"run_assessment"}
      [] OTHER -> {}

\* the assessment notebook with its model kept under another name
WritesRenamed(n, c) ==
    IF n = "asl" THEN WritesASL(c) ELSE WritesFruit(c) \ {"model"}
\* the names a cell assigns or imports
Writes(n, c) == IF n = "asl" THEN WritesASL(c) ELSE WritesFruit(c)

\* the names a cell reads without having bound them itself
Reads(n, c) ==
    IF n = "asl"
    THEN CASE c = 4 -> {"datagen", "x_train"}
           [] c = 5 -> {"model"}
           [] c = 6 -> {"model", "datagen", "x_train", "y_train", "x_test",
                        "y_test"}
           [] c = 7 -> {"model"}
           [] OTHER -> {}
    ELSE CASE c = 2 -> {"base_model"}
           [] c = 3 -> {"keras", "base_model"}
           [] c = 4 -> {"model"}
           [] c = 5 -> {"model"}
           [] c = 7 -> {"datagen"}
           [] c = 8 -> {"model", "train_it", "test_it"}
           [] c = 9 -> {"base_model", "model", "keras"}
           [] c = 10 -> {"model", "train_it", "test_it"}
           [] c = 11 -> {"model", "test_it"}
           [] c = 13 -> {"run_assessment", "model", "test_it"}
           [] OTHER -> {}

\* the names bound by the statements of a cell that ran before its k-th
\* library call raised
WritesBefore(n, k) ==
    IF n = "asl"
    THEN IF k = 1 THEN {"keras", "pd"} ELSE {"keras", "pd", "train_df"}
    ELSE IF k = 1 THEN {} ELSE {"train_it"}

Exceptions == {"FileNotFoundError"}

\* an except clause that swallows the exception
SurfaceSwallowed(e) == "none"
\* no cell has a try/except: the exception reaches the user as raised
Surface(e) == e

(* ------------------------------- Init --------------------------------- *)
Init ==
    /\ nb \in {"asl", "fruit"}
    /\ pc = 1
    /\ active = {}
    /\ base_model = NoBase
    /\ model = NoModel
    /\ datagen = NoDatagen
    /\ train_it = NoIter
    /\ test_it = NoIter
    /\ fitArgs = NoFitArgs
    /\ epoch = 0
    /\ step = 0
    /\ images = 0
    /\ epochLog = NoLog
    /\ fitsDone = 0
    /\ baseUpdates = 0
    /\ headUpdates = 0
    /\ saved = FALSE
    /\ valInput = "none"
    /\ lastEval = NoEval
    /\ verdict = "none"
    /\ names = Unbound
    /\ fitSaw = Unbound
    /\ error = "none"
    /\ raised = "none"

\* cells run in whatever order they are clicked
AtCellAnyOrder(n, c) == nb = n /\ KernelIdle /\ error = "none"
\* the kernel is free, no earlier cell has failed and the next cell in
\* document order is cell c
AtCell(n, c) == nb = n /\ pc = c /\ KernelIdle /\ error = "none"

\* a cell that completes binds the names it assigns or imports
Next1 ==
    /\ pc' = pc + 1
    /\ names' = Bind(Writes(nb, pc), pc)
    /\ UNCHANGED <<nb, active, fitSaw, error, raised>>

\* a long call starts; fit receives the objects its argument names are
\* bound to at that moment
Begin(call) ==
    /\ pc' = pc + 1
    /\ active' = active \cup {call}
    /\ names' = Bind(Writes(nb, pc), pc)
    /\ fitSaw' = IF call = "fit" THEN names ELSE fitSaw
    /\ UNCHANGED <<nb, error, raised>>

(* ---------------- data-augmentation notebook (asl) -------------------- *)
\* cell [1]: read the CSV files, split labels, normalise, reshape
LoadData ==
    /\ AtCell("asl", 1)
    /\ Next1
    /\ UNCHANGED <<objs, prog, wts, outs>>

\* cell [2]: Sequential model ending in Dense(num_classes, softmax)
CreateModel ==
    /\ AtCell("asl", 2)
    /\ Next1
    /\ model' = [NoModel EXCEPT !.built = TRUE,
                                !.input_shape = ASL_INPUT_SHAPE,
                                !.units = num_classes]
    /\ UNCHANGED <<base_model, datagen, train_it, test_it, prog, wts, outs>>

\* cell [3]: ImageDataGenerator(rotation 10, zoom .1, shifts .1, h-flip)
MakeDatagen ==
    /\ AtCell("asl", 3)
    /\ Next1
    /\ datagen' = [NoDatagen EXCEPT !.made = TRUE,
                                    !.rotation_range = 10,
                                    !.zoom_tenths = 1,
                                    !.width_shift_tenths = 1,
                                    !.height_shift_tenths = 1,
                                    !.horizontal_flip = TRUE]
    /\ UNCHANGED <<base_model, model, train_it, test_it, prog, wts, outs>>

\* cell [4]: datagen.fit(x_train)
DatagenFit ==
    /\ AtCell("asl", 4)
    /\ Next1
    /\ datagen' = [datagen EXCEPT !.fitted = TRUE]
    /\ UNCHANGED <<base_model, model, train_it, test_it, prog, wts, outs>>

\* cell [5]: model.compile(loss='categorical_crossentropy', metrics=['accuracy'])
CompileASL ==
    /\ AtCell("asl", 5)
    /\ Next1
    /\ model' = [model EXCEPT !.compiled = TRUE,
                              !.loss = INITIAL_LOSS,
                              !.metric = INITIAL_METRIC,
                              !.trainBase = FALSE]
    /\ UNCHANGED <<base_model, datagen, train_it, test_it, prog, wts, outs>>

\* cell [6]: model.fit(datagen.flow(x_train, y_train, batch_size=32),
\*           epochs=20, steps_per_epoch=len(x_train)/32,
\*           validation_data=(x_test, y_test))
FitASL ==
    /\ AtCell("asl", 6)
    /\ Begin("fit")
    /\ train_it' = MakeIter(datagen, ASL_TRAIN_ROWS, ASL_BATCH_SIZE,
                            ASL_INPUT_SHAPE, num_classes)
    /\ fitArgs' = [num |-> ASL_TRAIN_ROWS, den |-> ASL_BATCH_SIZE,
                   epochs |-> EPOCHS, valGen |-> FALSE]
    /\ epoch' = 0 /\ step' = 0 /\ images' = 0
    /\ UNCHANGED <<base_model, model, datagen, test_it, epochLog, fitsDone,
                   wts, outs>>

\* cell [7]: model.save('asl_model')
SaveBegin ==
    /\ AtCell("asl", 7)
    /\ Begin("save")
    /\ UNCHANGED <<objs, prog, wts, outs>>

SaveReturn ==
    /\ "save" \in active
    /\ active' = active \ {"save"}
    /\ saved' = TRUE
    /\ UNCHANGED <<nb, pc, objs, prog, wts, valInput, lastEval, verdict>>
    /\ UNCHANGED sess

\* cell [8]: app.kernel.do_shutdown(True): the kernel restarts and every
\* object in memory is gone; what was written to disk stays
Shutdown ==
    /\ AtCell("asl", 8)
    /\ pc' = pc + 1
    /\ names' = Unbound /\ fitSaw' = Unbound
    /\ UNCHANGED <<nb, active, error, raised>>
    /\ base_model' = NoBase /\ model' = NoModel /\ datagen' = NoDatagen
    /\ train_it' = NoIter /\ test_it' = NoIter
    /\ fitArgs' = NoFitArgs /\ epoch' = 0 /\ step' = 0 /\ images' = 0
    /\ epochLog' = NoLog /\ fitsDone' = 0
    /\ baseUpdates' = 0 /\ headUpdates' = 0
    /\ valInput' = "none" /\ lastEval' = NoEval /\ verdict' = "none"
    /\ UNCHANGED saved

(* ------------------------------ fit loop ------------------------------ *)
\* one training batch: the optimizer updates every trainable weight
FitStep ==
    /\ "fit" \in active
    /\ epoch < fitArgs.epochs
    /\ ~EpochOver(step, fitArgs.num, fitArgs.den)
    /\ step < StepCap
    /\ step' = step + 1
    /\ images' = images + BatchLen(train_it)
    /\ train_it' = Advance(train_it)
    /\ headUpdates' = headUpdates + 1
    /\ baseUpdates' = IF model.hasBase /\ model.trainBase
                      THEN baseUpdates + 1 ELSE baseUpdates
    /\ UNCHANGED <<kernel, base_model, model, datagen, test_it,
                   fitArgs, epoch, epochLog, fitsDone, outs>>
    /\ UNCHANGED sess

\* end of an epoch: log the step count, then validate
FitEpochEnd ==
    /\ "fit" \in active
    /\ epoch < fitArgs.epochs
    /\ EpochOver(step, fitArgs.num, fitArgs.den)
    /\ epochLog' = [steps |-> step,
                    target |-> LoggedTarget(fitArgs.num, fitArgs.den),
                    images |-> images]
    /\ epoch' = epoch + 1
    /\ step' = 0
    /\ images' = 0
    /\ valInput' \in (IF fitArgs.valGen THEN DrawInput(test_it) ELSE {"clean"})
    /\ UNCHANGED <<kernel, objs, fitArgs, fitsDone, wts, saved, lastEval,
                   verdict>>
    /\ UNCHANGED sess

\* model.fit returns once the requested epochs have run
FitReturn ==
    /\ "fit" \in active
    /\ epoch = fitArgs.epochs
    /\ active' = active \ {"fit"}
    /\ fitsDone' = fitsDone + 1
    /\ UNCHANGED <<nb, pc, objs, fitArgs, epoch, step, images, epochLog,
                   wts, outs>>
    /\ UNCHANGED sess

(* -------------------- assessment notebook (fruit) --------------------- *)
\* cell 1: VGG16(weights='imagenet', input_shape=(224,224,3), include_top=False)
LoadBase ==
    /\ AtCell("fruit", 1)
    /\ Next1
    /\ base_model' = [loaded |-> TRUE, input_shape |-> VGG_INPUT_SHAPE,
                      trainable |-> TRUE]
    /\ UNCHANGED <<model, datagen, train_it, test_it, prog, wts, outs>>

\* cell 2: base_model.trainable = False
Freeze ==
    /\ AtCell("fruit", 2)
    /\ Next1
    /\ base_model' = [base_model EXCEPT !.trainable = FREEZE_VALUE]
    /\ UNCHANGED <<model, datagen, train_it, test_it, prog, wts, outs>>

\* cell 3: Input -> base_model -> GlobalAveragePooling2D -> Dense(6, softmax)
AddLayers ==
    /\ AtCell("fruit", 3)
    /\ Next1
    /\ model' = [NoModel EXCEPT !.built = TRUE,
                                !.input_shape = KERAS_INPUT_SHAPE,
                                !.units = DENSE_UNITS,
                                !.hasBase = TRUE]
    /\ UNCHANGED <<base_model, datagen, train_it, test_it, prog, wts, outs>>

\* cell 4: model.summary() only prints
Summary ==
    /\ AtCell("fruit", 4)
    /\ Next1
    /\ UNCHANGED <<objs, prog, wts, outs>>

\* cell 5: model.compile(loss='categorical_crossentropy', metrics=['accuracy'])
\* compile records which weights the optimizer will update
CompileInitial ==
    /\ AtCell("fruit", 5)
    /\ Next1
    /\ model' = [model EXCEPT !.compiled = TRUE,
                              !.loss = INITIAL_LOSS,
                              !.metric = INITIAL_METRIC,
                              !.trainBase = base_model.trainable]
    /\ UNCHANGED <<base_model, datagen, train_it, test_it, prog, wts, outs>>

\* cell 6: ImageDataGenerator(samplewise_center, rotation 10, zoom .1,
\*         shifts .1, horizontal_flip)
MakeDatagenFruit ==
    /\ AtCell("fruit", 6)
    /\ Next1
    /\ datagen' = [NoDatagen EXCEPT !.made = TRUE,
                                    !.samplewise_center = TRUE,
                                    !.rotation_range = 10,
                                    !.zoom_tenths = 1,
                                    !.width_shift_tenths = 1,
                                    !.height_shift_tenths = 1,
                                    !.horizontal_flip = TRUE]
    /\ UNCHANGED <<base_model, model, train_it, test_it, prog, wts, outs>>

\* cell 7: train_it and test_it, both from datagen.flow_from_directory
LoadDataset ==
    /\ AtCell("fruit", 7)
    /\ Next1
    /\ train_it' = MakeIter(datagen, FRUIT_TRAIN_IMAGES, DEFAULT_BATCH_SIZE,
                            ImageShape(TARGET_SIZE, COLOR_MODE),
                            FRUIT_TRAIN_CLASSES)
    /\ test_it' = MakeIter(datagen, FRUIT_TEST_IMAGES, DEFAULT_BATCH_SIZE,
                           ImageShape(TARGET_SIZE, COLOR_MODE),
                           FRUIT_TEST_CLASSES)
    /\ UNCHANGED <<base_model, model, datagen, prog, wts, outs>>

\* model.fit(train_it, validation_data=test_it,
\*           steps_per_epoch=train_it.samples/train_it.batch_size, epochs=20)
FitCall ==
    /\ Begin("fit")
    /\ fitArgs' = [num |-> train_it.samples, den |-> train_it.batch_size,
                   epochs |-> EPOCHS, valGen |-> TRUE]
    /\ epoch' = 0 /\ step' = 0 /\ images' = 0
    /\ UNCHANGED <<objs, epochLog, fitsDone, wts, outs>>

\* cell 8: the initial training
FitInitial == AtCell("fruit", 8) /\ FitCall

\* a compile written above the assignment to trainable
SnapshotBefore(before, after) == before
\* the compile follows the assignment in the cell, so it records the flag
\* as just assigned
SnapshotAfter(before, after) == after

\* cell 9: base_model.trainable = True, then model.compile(RMSprop(1e-5),
\*         BinaryCrossentropy(from_logits=True), [BinaryAccuracy()])
UnfreezeCompile ==
    /\ AtCell("fruit", 9)
    /\ Next1
    /\ base_model' = [base_model EXCEPT !.trainable = UNFREEZE_VALUE]
    /\ model' = [model EXCEPT !.compiled = TRUE,
                              !.loss = FINETUNE_LOSS,
                              !.metric = FINETUNE_METRIC,
                              !.trainBase =
                                  SnapshotAfter(base_model.trainable,
                                                UNFREEZE_VALUE)]
    /\ UNCHANGED <<datagen, train_it, test_it, prog, wts, outs>>

\* the fine-tuning section (cells 9 and 10) is optional
SkipFineTuning ==
    /\ AtCell("fruit", 9)
    /\ pc' = 11
    /\ UNCHANGED <<nb, active, objs, prog, wts, outs>>
    /\ UNCHANGED sess

\* cell 10: the fine-tuning fit
FitFineTune == AtCell("fruit", 10) /\ FitCall

\* cell 11: model.evaluate(test_it, steps=test_it.samples/test_it.batch_size)
EvaluateBegin ==
    /\ AtCell("fruit", 11)
    /\ Begin("evaluate")
    /\ UNCHANGED <<objs, prog, wts, outs>>

\* the returned [loss, metric] pair is displayed and bound to no name
EvaluateReturn ==
    /\ "evaluate" \in active
    /\ active' = active \ {"evaluate"}
    /\ valInput' \in DrawInput(test_it)
    /\ UNCHANGED <<nb, pc, objs, prog, wts, saved, lastEval, verdict>>
    /\ UNCHANGED sess

\* cell 12: from run_assessment import run_assessment
ImportRunAssessment ==
    /\ AtCell("fruit", 12)
    /\ Next1
    /\ UNCHANGED <<objs, prog, wts, outs>>

\* cell 13: run_assessment(model, test_it)
RunAssessmentBegin ==
    /\ AtCell("fruit", 13)
    /\ Begin("run_assessment")
    /\ UNCHANGED <<objs, prog, wts, outs>>

\* the grading script evaluates the model on the iterator and grades it
RunAssessmentReturn ==
    /\ "run_assessment" \in active
    /\ active' = active \ {"run_assessment"}
    /\ valInput' \in DrawInput(test_it)
    /\ \E e \in EvalOutcomes(model, test_it) :
          /\ lastEval' = e
          /\ verdict' = Grade(e)
    /\ UNCHANGED <<nb, pc, objs, prog, wts, saved>>
    /\ UNCHANGED sess

(* ------------------------------ failures ------------------------------ *)
\* cell [1] of the data-augmentation notebook: the k-th pd.read_csv finds
\* no file; the statements after it do not run and the cell is not done
LoadDataFail ==
    /\ AtCell("asl", 1)
    /\ \E k \in 1..2, e \in Exceptions :
          /\ raised' = e
          /\ error' = Surface(e)
          /\ names' = Bind(WritesBefore("asl", k), pc)
    /\ UNCHANGED <<kernel, objs, prog, wts, outs, fitSaw>>

\* cell 7 of the assessment notebook: the k-th flow_from_directory finds
\* no directory; train_it exists only when the second call is the one
\* that failed
LoadDatasetFail ==
    /\ AtCell("fruit", 7)
    /\ \E k \in 1..2, e \in Exceptions :
          /\ raised' = e
          /\ error' = Surface(e)
          /\ names' = Bind(WritesBefore("fruit", k), pc)
          /\ train_it' = IF k = 2
                         THEN MakeIter(datagen, FRUIT_TRAIN_IMAGES,
                                       DEFAULT_BATCH_SIZE,
                                       ImageShape(TARGET_SIZE, COLOR_MODE),
                                       FRUIT_TRAIN_CLASSES)
                         ELSE train_it
    /\ UNCHANGED <<kernel, base_model, model, datagen, test_it, prog, wts,
                   outs, fitSaw>>

(* ---------------------------- specification --------------------------- *)
Next ==
    \/ LoadData \/ CreateModel \/ MakeDatagen \/ DatagenFit \/ CompileASL
    \/ FitASL \/ SaveBegin \/ SaveReturn \/ Shutdown
    \/ FitStep \/ FitEpochEnd \/ FitReturn
    \/ LoadBase \/ Freeze \/ AddLayers \/ Summary \/ CompileInitial
    \/ MakeDatagenFruit \/ LoadDataset \/ FitInitial \/ UnfreezeCompile
    \/ SkipFineTuning \/ FitFineTune \/ EvaluateBegin \/ EvaluateReturn
    \/ ImportRunAssessment \/ RunAssessmentBegin \/ RunAssessmentReturn
    \/ LoadDataFail \/ LoadDatasetFail

Spec == Init /\ [][Next]_vars

\* a call that has started keeps running until it returns
LiveSpec ==
    /\ Spec
    /\ WF_vars(FitStep) /\ WF_vars(FitEpochEnd) /\ WF_vars(FitReturn)

TypeOK ==
    /\ nb \in {"asl", "fruit"}
    /\ pc \in 1..14
    /\ active \subseteq {"fit", "save", "evaluate", "run_assessment"}
    /\ step \in 0..StepCap
    /\ epoch \in 0..EPOCHS
    /\ verdict \in {"none", "pass", "fail"}
    /\ valInput \in {"none", "clean", "perturbed"}

(* ------------------------------ properties ---------------------------- *)
GradingCalls == {"fit", "evaluate", "run_assessment"}

\* C1: in the assessment notebook the grading call is never reached
\* without the trained model having been saved before it.
C1_SavedBeforeAssessment ==
    (nb = "fruit" /\ ("run_assessment" \in active \/ verdict # "none"))
        => saved

\* C2: the assessment passes exactly when the share of test images the
\* model classifies correctly is at least 92 percent.
C2_PassIffAccuracy ==
    verdict # "none" =>
        (verdict = "pass" <=> lastEval.correct * 100 >= 92 * lastEval.n)

\* C3: whenever fit, evaluate or run_assessment runs in the assessment
\* notebook, the loss configured by the latest compile is categorical
\* cross-entropy.
C3_LossCategorical ==
    (nb = "fruit" /\ active \cap GradingCalls # {})
        => (model.compiled /\ model.loss = "categorical_crossentropy")

\* C4: in the assessment notebook the final dense layer has 6 neurons, both
\* iterators report 6 classes and both deliver categorical labels.
C4_OutputWidth ==
    nb = "fruit" =>
        /\ model.built => model.units = 6
        /\ train_it.made =>
              /\ train_it.classes = 6
              /\ train_it.class_mode = "categorical"
        /\ test_it.made =>
              /\ test_it.classes = 6
              /\ test_it.class_mode = "categorical"
        /\ active \cap GradingCalls # {} =>
              /\ train_it.made /\ test_it.made
              /\ model.units = train_it.classes
              /\ model.units = test_it.classes

C4_Witness ==
    nb = "fruit" /\ "fit" \in active /\ fitsDone = 1 /\ step > 0

\* C5: in the assessment notebook the base model, the combined model and
\* both iterators all use the image shape (224, 224, 3).
C5_InputShape ==
    nb = "fruit" =>
        /\ base_model.loaded => base_model.input_shape = <<224, 224, 3>>
        /\ model.built => model.input_shape = base_model.input_shape
        /\ train_it.made => train_it.image_shape = model.input_shape
        /\ test_it.made => test_it.image_shape = model.input_shape
        /\ active \cap GradingCalls # {} =>
              /\ train_it.made /\ test_it.made /\ model.built

C5_Witness ==
    nb = "fruit" /\ "evaluate" \in active

\* C6: from the freeze cell until the unfreeze cell the base model is not
\* trainable; the initial fit updates no base weight and updates the dense
\* layer in every step.
C6_FrozenInitialTraining ==
    (nb = "fruit" /\ pc \in 3..9) =>
        /\ ~base_model.trainable
        /\ baseUpdates = 0
        /\ "fit" \in active => headUpdates = epoch * PassLen(train_it) + step
        /\ (pc = 9 /\ active = {}) =>
              headUpdates = EPOCHS * PassLen(train_it)

C6_Witness ==
    nb = "fruit" /\ pc = 9 /\ active = {} /\ headUpdates > 0
        /\ baseUpdates = 0

C8_FitTerminates ==
    /\ []("fit" \in active => step <= PassLen(train_it))
    /\ [][("fit" \in active /\ "fit" \notin active') => epoch = 20]_vars
    /\ ("fit" \in active) ~> ("fit" \notin active /\ epoch = 20)

C8_Witness ==
    fitsDone = 1 /\ epoch = 20 /\ "fit" \notin active /\ "save" \notin active
        /\ nb = "asl" /\ ~saved

\* C9: every batch used for validation, evaluate or run_assessment
\* consists of unperturbed test images.
C9_TestInputsClean ==
    valInput # "perturbed"

\* C10: at most one library call is in progress at any time, and save,
\* evaluate and run_assessment start only after fit has completed.
C10_OneCallAtATime ==
    /\ Cardinality(active) <= 1
    /\ active \cap {"save", "evaluate", "run_assessment"} # {} =>
          /\ fitsDone >= 1
          /\ epoch = fitArgs.epochs
          /\ step = 0

C10_Witness ==
    "save" \in active /\ fitsDone = 1

\* C11: a failing library call surfaces as raised, the statements after it
\* in the cell do not run, and nothing runs or is re-attempted afterwards.
C11_NoRecovery ==
    /\ [](error = raised)
    /\ [](raised # "none" =>
            /\ active = {}
            /\ nb = "asl" =>
                  /\ pc = 1
                  /\ names["test_df"] = 0 /\ names["x_train"] = 0
                  /\ ~model.built
            /\ nb = "fruit" =>
                  /\ pc = 7
                  /\ ~test_it.made /\ names["test_it"] = 0
                  /\ train_it.made <=> names["train_it"] # 0
                  /\ fitsDone = 0)
    /\ [][raised = "none"]_vars

C11_Witness ==
    raised = "FileNotFoundError" /\ nb = "fruit" /\ train_it.made

\* the notebook's data is in memory: the arrays of cell [1], or the
\* directory iterators of cell 7
DataLoaded == IF nb = "asl" THEN names["x_train"] # 0 ELSE train_it.made

FitStarted == "fit" \in active \/ fitsDone > 0

\* C12 (as stated): in both notebooks the data is loaded before the network
\* is constructed, and fit starts only after both.
C12_PipelineOrder ==
    /\ model.built => DataLoaded
    /\ FitStarted => (model.built /\ DataLoaded)

\* C12 (amended): in both notebooks fit starts only after the data has been
\* loaded and the network constructed, with an augmenting training
\* iterator; the data-augmentation notebook loads its data before it
\* constructs the network, the assessment notebook constructs the network
\* before it loads its dataset iterators.
C12_FitAfterLoadAndBuild ==
    /\ FitStarted =>
          /\ model.built /\ DataLoaded
          /\ datagen.made /\ train_it.made /\ train_it.augments
    /\ nb = "asl" => (model.built => DataLoaded)
    /\ nb = "fruit" => (DataLoaded => model.built)

C12_Witness ==
    /\ nb = "fruit" /\ "fit" \in active /\ fitsDone = 0
    /\ epoch = 0 /\ step = 1 /\ model.built /\ train_it.made

\* C13: whenever fit runs, the model has been compiled since it was
\* constructed and since base_model.trainable was last assigned: the first
\* fit runs with the frozen flag compiled in, the second with the unfrozen.
C13_CompiledBeforeFit ==
    "fit" \in active =>
        /\ model.built /\ model.compiled
        /\ model.hasBase =>
              /\ model.trainBase = base_model.trainable
              /\ fitsDone = 0 => ~model.trainBase
              /\ fitsDone = 1 => model.trainBase

C13_Witness ==
    /\ nb = "fruit" /\ "fit" \in active /\ fitsDone = 1
    /\ model.trainBase /\ base_model.trainable /\ baseUpdates > 0

\* C14: whenever a cell can start, every name it reads was bound by an
\* earlier cell; when run_assessment runs, model is the combined model of
\* cell 3 and test_it the iterator of cell 7, the same objects the last fit
\* received.
C14_NamesBound ==
    /\ (KernelIdle /\ error = "none") =>
          \A v \in Reads(nb, pc) : names[v] \in 1..(pc - 1)
    /\ "run_assessment" \in active =>
          /\ names["run_assessment"] = 12
          /\ names["model"] = 3 /\ model.built /\ model.hasBase
          /\ names["test_it"] = 7 /\ test_it.made
          /\ fitsDone >= 1
          /\ fitSaw["model"] = names["model"]
          /\ fitSaw["test_it"] = names["test_it"]

C14_Witness ==
    /\ "run_assessment" \in active /\ fitsDone = 2
    /\ names["model"] = 3 /\ fitSaw["test_it"] = 7
====
